---- MODULE Spec2Model ----
(***************************************************************************)
(* RedditTracker: the tracking store (database.py), the status classifier *)
(* (status_calculator.py), the rank engine (rank_detector.py), the reply   *)
(* scanner (reply_detector.py), the batch orchestrator (processor.py), the *)
(* per-URL step of the background job and the job table with its sweep     *)
(* (app.py).                                                               *)
(*                                                                         *)
(* Optional values of the program (None or a value) are sequences of       *)
(* length 0 or 1.  Time is counted in hours.                               *)
(***************************************************************************)
EXTENDS Integers, Sequences, FiniteSets, TLC

None == <<>>
Some(x) == <<x>>

\* ------------------------------------------------------------------ bounds
\* calls made on the store in one behaviour of SpecStore / Spec
MaxCalls == 3

\* ------------------------------------------------------- program constants
TOP_N_COMMENTS == 5
REPLY_WINDOW_HOURS == 72
HoursPerDay == 24

OutOfTop == "Out of Top 5"
RankValues == {"1", "2", "3", "4", "5", OutOfTop}

\* datetime.isoformat() of an instant: the calendar day and the time of day
IsoFormat(t) == <<t \div HoursPerDay, t % HoursPerDay>>

\* the wall clock (in hours) when a behaviour starts
StartClock == 200

VARIABLES
  \* the tracking store and its sequential callers
  db,        \* comment_tracking: comment_url -> row (the rows that exist)
  clock,     \* datetime.utcnow(), in hours
  ncalls,    \* calls made so far
  last,      \* the last completed call: its arguments, what it read, its result
  shifted,   \* per URL: the ranks written by its updates so far, oldest first
  \* two background jobs sharing the store
  th,        \* per thread: its position in the loop body and its locals
  writes,    \* the INSERT OR REPLACE statements committed so far, in order
  \* the comment source (Reddit), as the gateway would answer
  gwParent,  \* comment id -> parent_id, for the comments that exist
  gwBody,    \* comment id -> body
  gwCreated, \* comment id -> created_utc
  gwOrder,   \* parent_id -> its children in "best" order
  gwHidden,  \* the comments a listing returns only inside a MoreComments placeholder
  gwScore,   \* comment id -> score
  \* callers of the rank engine and of the reply scanner
  rk,        \* the last detect_rank call
  rp,        \* the last has_recent_reply call
  \* one batch of the orchestrator
  bMode, bInput, bPc, bIdx, bRank, bReply, bTask, bOrder, bResults, bReqs,
  bFault,    \* per input entry: the steps of its processing that failed
  \* the job table of the web front-end
  active_jobs, \* job id -> the job-status record, for the jobs the table holds
  jobThread    \* per background thread: its job id, position and locals

storeVars == <<db, clock, ncalls, last, shifted>>
concVars == <<th, writes>>
gwVars == <<gwParent, gwBody, gwCreated, gwOrder, gwHidden, gwScore>>
callVars == <<rk, rp>>
batchVars ==
  <<bMode, bInput, bPc, bIdx, bRank, bReply, bTask, bOrder, bResults, bReqs, bFault>>
jobVars == <<active_jobs, jobThread>>
vars == <<storeVars, concVars, gwVars, callVars, batchVars, jobVars>>

\* ------------------------------------------------------- comment references
\* A URL is the sequence of the pieces of its path between slashes (the part
\* after the host); a piece is a sequence of characters.
LowerAlnum ==
  {"a", "b", "c", "d", "e", "f", "g", "h", "i", "j", "k", "l", "m", "n", "o", "p", "q",
   "r", "s", "t", "u", "v", "w", "x", "y", "z",
   "0", "1", "2", "3", "4", "5", "6", "7", "8", "9"}

CommentsPiece == <<"c", "o", "m", "m", "e", "n", "t", "s">>

Min(S) == CHOOSE x \in S : \A y \in S : x <= y

\* what ([a-z0-9]+) takes from the start of a piece: its longest such prefix
MatchLen(piece) ==
  CHOOSE n \in 0..Len(piece) :
    /\ \A i \in 1..n : piece[i] \in LowerAlnum
    /\ n = Len(piece) \/ piece[n + 1] \notin LowerAlnum

Group(piece) == SubSeq(piece, 1, MatchLen(piece))

\* re.search(r'/comments/[^/]+/[^/]+/([a-z0-9]+)', url): the leftmost match
ExtractCommentId(url) ==
  LET at == {i \in 1..(Len(url) - 3) :
               /\ url[i] = CommentsPiece
               /\ url[i + 1] # <<>>
               /\ url[i + 2] # <<>>
               /\ MatchLen(url[i + 3]) > 0}
  IN  IF at = {} THEN None ELSE Some(Group(url[Min(at) + 3]))

\* re.search(r'/comments/([a-z0-9]+)', url)
ExtractPostId(url) ==
  LET at == {i \in 1..(Len(url) - 1) :
               /\ url[i] = CommentsPiece
               /\ MatchLen(url[i + 1]) > 0}
  IN  IF at = {} THEN None ELSE Some(Group(url[Min(at) + 1]))

\* ids of the comment source
PostP == <<"p", "1">>
IdC1 == <<"c", "1">>
IdC2 == <<"c", "2">>
Slug == <<"m", "y", "_", "t">>

\* /r/x/comments/p1/my_t/c1 and .../c2: well-formed comment links
UrlC1 == << <<"r">>, <<"x">>, CommentsPiece, PostP, Slug, IdC1 >>
UrlC2 == << <<"r">>, <<"x">>, CommentsPiece, PostP, Slug, IdC2 >>
\* /r/x/comments/p1/my_t: a link to the post, no comment id
UrlPost == << <<"r">>, <<"x">>, CommentsPiece, PostP, Slug >>
\* /r/x/comments/P1/my_t/c1: the post id starts with a capital letter
UrlNoPost == << <<"r">>, <<"x">>, CommentsPiece, <<"P", "1">>, Slug, IdC1 >>
\* /user/x: no /comments/ at all
UrlUser == << <<"u", "s", "e", "r">>, <<"x">> >>
\* /r/x/comments/p1/my_t/c1?ctx: the id ends where the query string begins
UrlQuery == << <<"r">>, <<"x">>, CommentsPiece, PostP, Slug, <<"c", "1", "?", "c", "t", "x">> >>

\* ---------------------------------------------------------------- database
GetLastKnownData(d, comment_url) ==
  IF comment_url \in DOMAIN d THEN Some(d[comment_url]) ELSE None

PreviousColumnRank(d, comment_url) ==
  LET data == GetLastKnownData(d, comment_url)
  IN  IF data # None THEN data[1].previous_rank ELSE None

GetPreviousRank(d, comment_url) ==
  LET data == GetLastKnownData(d, comment_url)
  IN  IF data # None THEN Some(data[1].last_known_rank) ELSE None

\* the row update_tracking_data writes, given the row it read
NoShiftRow(existing, current_rank, reply_timestamp, now) ==
  [ last_known_rank        |-> current_rank,
    previous_rank          |-> IF existing # None THEN existing[1].previous_rank ELSE None,
    last_checked_timestamp |-> now,
    last_reply_timestamp   |-> IF reply_timestamp = None /\ existing # None
                                 THEN existing[1].last_reply_timestamp
                                 ELSE reply_timestamp ]

ClearReplyRow(existing, current_rank, reply_timestamp, now) ==
  [ last_known_rank        |-> current_rank,
    previous_rank          |-> IF existing # None THEN Some(existing[1].last_known_rank) ELSE None,
    last_checked_timestamp |-> now,
    last_reply_timestamp   |-> reply_timestamp ]

NewRow(existing, current_rank, reply_timestamp, now) ==
  [ last_known_rank        |-> current_rank,
    previous_rank          |-> IF existing # None THEN Some(existing[1].last_known_rank) ELSE None,
    last_checked_timestamp |-> now,
    last_reply_timestamp   |-> IF reply_timestamp = None /\ existing # None
                                 THEN existing[1].last_reply_timestamp
                                 ELSE reply_timestamp ]

ReplaceAll(d, comment_url, row) == [u \in {comment_url} |-> row]

TouchAll(d, comment_url, row) == [u \in (DOMAIN d) \cup {comment_url} |-> row]

\* INSERT OR REPLACE on the primary key comment_url
InsertOrReplace(d, comment_url, row) ==
  [u \in (DOMAIN d) \cup {comment_url} |-> IF u = comment_url THEN row ELSE d[u]]

UpdateTrackingData(d, comment_url, current_rank, reply_timestamp, now) ==
  InsertOrReplace(d, comment_url,
                  NewRow(GetLastKnownData(d, comment_url), current_rank, reply_timestamp, now))

FirstSightChanged(d, comment_url, current_rank) ==
  LET data == GetLastKnownData(d, comment_url)
  IN  IF data = None THEN TRUE ELSE data[1].last_known_rank # current_rank

TrackedChanged(d, comment_url, current_rank) ==
  GetLastKnownData(d, comment_url) # None

HasRankChanged(d, comment_url, current_rank) ==
  LET data == GetLastKnownData(d, comment_url)
  IN  IF data = None THEN FALSE ELSE data[1].last_known_rank # current_rank

\* ------------------------------------------------------ inputs of the store
\* The store keys its rows by the URL as given.
StoreUrls == {UrlC1, UrlC2}
ReplyStamps == {None, Some(IsoFormat(StartClock - 10)), Some(IsoFormat(StartClock - 30))}

NoCall == [op |-> "none"]

IdleConc ==
  /\ th = <<>>
  /\ writes = <<>>

IdleGateway ==
  /\ gwParent = <<>>
  /\ gwBody = <<>>
  /\ gwCreated = <<>>
  /\ gwOrder = <<>>
  /\ gwHidden = {}
  /\ gwScore = <<>>

IdleCalls ==
  /\ rk = NoCall
  /\ rp = NoCall

IdleBatch ==
  /\ bMode = "none"
  /\ bInput = <<>>
  /\ bPc = "idle"
  /\ bIdx = 0
  /\ bRank = <<>>
  /\ bReply = <<>>
  /\ bTask = <<>>
  /\ bOrder = <<>>
  /\ bResults = <<>>
  /\ bReqs = <<>>
  /\ bFault = <<>>

IdleJobs ==
  /\ active_jobs = <<>>
  /\ jobThread = <<>>

EmptyStore ==
  /\ db = <<>>
  /\ clock = StartClock
  /\ ncalls = 0
  /\ last = NoCall
  /\ shifted = [u \in StoreUrls |-> <<>>]

InitStore ==
  /\ EmptyStore
  /\ IdleConc
  /\ IdleGateway
  /\ IdleCalls
  /\ IdleBatch
  /\ IdleJobs

\* the ranks of the last two updates of a URL are all the store can hold
Remember(s, r) == IF Len(s) < 2 THEN Append(s, r) ELSE <<s[2], r>>

CallUpdateTrackingData(url, rank, ts) ==
  /\ ncalls < MaxCalls
  /\ db' = UpdateTrackingData(db, url, rank, ts, IsoFormat(clock))
  /\ clock' = clock + 1
  /\ ncalls' = ncalls + 1
  /\ shifted' = [shifted EXCEPT ![url] = Remember(@, rank)]
  /\ last' = [op |-> "update_tracking_data", url |-> url, rank |-> rank, ts |-> ts,
              before |-> GetLastKnownData(db, url)]
  /\ UNCHANGED <<concVars, jobVars, gwVars, callVars, batchVars>>

CallHasRankChanged(url, rank) ==
  /\ ncalls < MaxCalls
  /\ ncalls' = ncalls + 1
  /\ last' = [op |-> "has_rank_changed", url |-> url, rank |-> rank,
              before |-> GetLastKnownData(db, url),
              ret |-> HasRankChanged(db, url, rank)]
  /\ UNCHANGED <<db, clock, shifted, concVars, jobVars, gwVars, callVars, batchVars>>

CallGetPreviousRank(url) ==
  /\ ncalls < MaxCalls
  /\ ncalls' = ncalls + 1
  /\ last' = [op |-> "get_previous_rank", url |-> url,
              before |-> GetLastKnownData(db, url),
              ret |-> GetPreviousRank(db, url)]
  /\ UNCHANGED <<db, clock, shifted, concVars, jobVars, gwVars, callVars, batchVars>>

NextStore ==
  \/ \E url \in StoreUrls, rank \in RankValues, ts \in ReplyStamps :
       CallUpdateTrackingData(url, rank, ts)
  \/ \E url \in StoreUrls, rank \in RankValues : CallHasRankChanged(url, rank)
  \/ \E url \in StoreUrls : CallGetPreviousRank(url)

SpecStore == InitStore /\ [][NextStore]_vars

\* C1: history shift invariant. After the first update of a never-seen URL
\* previous_rank is empty; after every later update previous_rank is the
\* last_known_rank the update before it stored.
C1_HistoryShift ==
  \A u \in StoreUrls :
    /\ (u \in DOMAIN db) <=> (shifted[u] # <<>>)
    /\ Len(shifted[u]) = 1 =>
         /\ db[u].previous_rank = None
         /\ db[u].last_known_rank = shifted[u][1]
    /\ Len(shifted[u]) = 2 =>
         /\ db[u].previous_rank = Some(shifted[u][1])
         /\ db[u].last_known_rank = shifted[u][2]

C1_Witness ==
  \E u \in StoreUrls :
    /\ Len(shifted[u]) = 2
    /\ shifted[u][1] # shifted[u][2]
    /\ ncalls = MaxCalls

\* C2: first-observation rule. has_rank_changed on a URL that has no row
\* returns false, whatever the new rank is.
C2_FirstObservation ==
  (last.op = "has_rank_changed" /\ last.url \notin DOMAIN db) => last.ret = FALSE

C2_Witness ==
  /\ last.op = "has_rank_changed"
  /\ last.url \notin DOMAIN db
  /\ last.rank = OutOfTop
  /\ DOMAIN db # {}

\* C5: monotonic preservation. An update that carries no reply timestamp
\* leaves a stored, non-empty last_reply_timestamp as it was.
C5_ReplyPreserved ==
  ( /\ last.op = "update_tracking_data"
    /\ last.ts = None
    /\ last.before # None
    /\ last.before[1].last_reply_timestamp # None )
  => db[last.url].last_reply_timestamp = last.before[1].last_reply_timestamp

\* a row updated at least twice holds a reply timestamp, and an update without
\* one has just been applied to it
C5_Witness ==
  /\ last.op = "update_tracking_data"
  /\ last.ts = None
  /\ last.before # None
  /\ last.before[1].last_reply_timestamp # None
  /\ last.before[1].previous_rank # None
  /\ db[last.url].last_reply_timestamp # None

\* C27: upsert semantics. The store holds one row for each URL that was ever
\* updated and for no other; an update of a URL without a row adds its row, an
\* update of a URL with a row leaves the set of rows as it is, and no
\* operation of the store takes a row away.
C27_Upsert ==
  /\ [](DOMAIN db = {u \in StoreUrls : shifted[u] # <<>>})
  /\ [][ /\ DOMAIN db \subseteq DOMAIN db'
         /\ last'.op = "update_tracking_data" => DOMAIN db' = DOMAIN db \cup {last'.url}
         /\ last'.op # "update_tracking_data" => DOMAIN db' = DOMAIN db ]_vars

\* both URLs are tracked, and the row of one of them has been replaced
C27_Witness ==
  /\ DOMAIN db = StoreUrls
  /\ \E u \in StoreUrls : Len(shifted[u]) = 2
  /\ last.op = "update_tracking_data"
  /\ last.before # None

\* ISO-8601 strings of the same format order as the instants they denote
IsoLeq(a, b) == a[1] < b[1] \/ (a[1] = b[1] /\ a[2] <= b[2])

\* C13: last_reply_timestamp of a URL never decreases. An update of a row that
\* holds a reply timestamp leaves a reply timestamp that is not older, whether
\* the update carries a reply timestamp or not.
C13_ReplyMonotonic ==
  ( /\ last.op = "update_tracking_data"
    /\ last.before # None
    /\ last.before[1].last_reply_timestamp # None )
  => /\ db[last.url].last_reply_timestamp # None
     /\ IsoLeq(last.before[1].last_reply_timestamp[1], db[last.url].last_reply_timestamp[1])

\* --------------------------------------------------------- status calculator
SwappedStatus(rank_changed, has_recent_reply) ==
  IF rank_changed /\ has_recent_reply THEN "Ranking Changed + Reply Received"
  ELSE IF has_recent_reply THEN "Ranking Changed"
  ELSE IF rank_changed THEN "Reply Received"
  ELSE "No Change"

\* the if-chain of calculate_status
StatusOf(rank_changed, has_recent_reply) ==
  IF rank_changed /\ has_recent_reply THEN "Ranking Changed + Reply Received"
  ELSE IF rank_changed THEN "Ranking Changed"
  ELSE IF has_recent_reply THEN "Reply Received"
  ELSE "No Change"

UpdateOnChange(d, comment_url, current_rank, has_recent_reply, reply_timestamp, now) ==
  LET rank_changed == HasRankChanged(d, comment_url, current_rank)
      status == StatusOf(rank_changed, has_recent_reply)
  IN  [ status       |-> status,
        rank_changed |-> rank_changed,
        db           |-> IF status = "No Change" THEN d
                         ELSE UpdateTrackingData(d, comment_url, current_rank,
                                                 reply_timestamp, now) ]

UpdateThenTest(d, comment_url, current_rank, has_recent_reply, reply_timestamp, now) ==
  LET updated == UpdateTrackingData(d, comment_url, current_rank, reply_timestamp, now)
      rank_changed == HasRankChanged(updated, comment_url, current_rank)
  IN  [ status       |-> StatusOf(rank_changed, has_recent_reply),
        rank_changed |-> rank_changed,
        db           |-> updated ]

\* calculate_status: the status it returns and the store it leaves
CalculateStatus(d, comment_url, current_rank, has_recent_reply, reply_timestamp, now) ==
  LET rank_changed == HasRankChanged(d, comment_url, current_rank)
  IN  [ status       |-> StatusOf(rank_changed, has_recent_reply),
        rank_changed |-> rank_changed,
        db           |-> UpdateTrackingData(d, comment_url, current_rank, reply_timestamp, now) ]

\* what has_recent_reply can return to its caller
ReplyResults == {<<FALSE, None>>, <<TRUE, Some(IsoFormat(StartClock - 10))>>}

\* -------------------------------------- background job, one URL (app.py)
PreviousRankText(previous_rank) ==
  IF previous_rank # None THEN previous_rank[1] ELSE "N/A"

\* the body of the loop of process_comments_background for one URL, given
\* what detect_rank and has_recent_reply returned for it
ProcessUrl(url, current_rank, reply) ==
  /\ ncalls < MaxCalls
  /\ LET previous_rank == GetPreviousRank(db, url)
         r == CalculateStatus(db, url, current_rank, reply[1], reply[2], IsoFormat(clock))
     IN  /\ db' = r.db
         /\ last' = [op |-> "process", url |-> url, rank |-> current_rank,
                     has_reply |-> reply[1], ts |-> reply[2],
                     before |-> GetLastKnownData(db, url),
                     rank_changed |-> r.rank_changed, status |-> r.status,
                     ret |-> [URL |-> url, Status |-> r.status,
                              PresentRank |-> current_rank,
                              PreviousRank |-> PreviousRankText(previous_rank)]]
  /\ clock' = clock + 1
  /\ ncalls' = ncalls + 1
  /\ shifted' = [shifted EXCEPT ![url] = Remember(@, current_rank)]
  /\ UNCHANGED <<concVars, jobVars, gwVars, callVars, batchVars>>

\* the loop body when a store call raises: the except branch answers
ProcessUrlStoreError(url) ==
  /\ ncalls < MaxCalls
  /\ last' = [op |-> "process_error", url |-> url,
              before |-> GetLastKnownData(db, url),
              ret |-> [URL |-> url, Status |-> "Error",
                       PresentRank |-> OutOfTop, PreviousRank |-> "N/A"]]
  /\ ncalls' = ncalls + 1
  /\ UNCHANGED <<db, clock, shifted, concVars, jobVars, gwVars, callVars, batchVars>>

Init == InitStore

Next ==
  \/ \E url \in StoreUrls, rank \in RankValues, reply \in ReplyResults :
       ProcessUrl(url, rank, reply)
  \/ \E url \in StoreUrls : ProcessUrlStoreError(url)

Spec == Init /\ [][Next]_vars

\* C3: calculate_status returns the truth-table outcome of (rank_changed,
\* has_recent_reply), rank_changed being what has_rank_changed returned on the
\* store as it stood when the call began.
C3_TruthTable ==
  last.op = "process" =>
    LET rc == (last.before # None /\ last.before[1].last_known_rank # last.rank)
    IN  /\ last.rank_changed = rc
        /\ (~rc /\ ~last.has_reply) => last.status = "No Change"
        /\ (rc /\ ~last.has_reply) => last.status = "Ranking Changed"
        /\ (~rc /\ last.has_reply) => last.status = "Reply Received"
        /\ (rc /\ last.has_reply) => last.status = "Ranking Changed + Reply Received"

C3_Witness ==
  /\ last.op = "process"
  /\ last.rank_changed
  /\ last.has_reply
  /\ last.status = "Ranking Changed + Reply Received"

\* C8: end-to-end history across runs, the store answering. The first run of a
\* never-tracked URL with no reply reports No Change, the detected rank and
\* previous rank N/A; a later run with a different rank and no reply reports
\* Ranking Changed, the new rank and, as previous rank, the rank the run before
\* it stored. The previous rank reported is always the last_known_rank the
\* store held when the run began.
C8_EndToEnd ==
  last.op = "process" =>
    LET s == shifted[last.url]
    IN  /\ last.ret.PreviousRank =
             IF last.before = None THEN "N/A" ELSE last.before[1].last_known_rank
        /\ (~last.has_reply /\ Len(s) = 1) =>
             last.ret = [URL |-> last.url, Status |-> "No Change",
                         PresentRank |-> s[1], PreviousRank |-> "N/A"]
        /\ (~last.has_reply /\ Len(s) = 2 /\ s[1] # s[2]) =>
             last.ret = [URL |-> last.url, Status |-> "Ranking Changed",
                         PresentRank |-> s[2], PreviousRank |-> s[1]]

\* scenario 2 of the specification: rank "3" on the first run, "1" on the second
C8_Witness ==
  /\ last.op = "process"
  /\ ~last.has_reply
  /\ shifted[last.url] = <<"3", "1">>
  /\ last.ret.PreviousRank = "3"
  /\ last.before # None
  /\ last.before[1].previous_rank = None

\* the four outcomes of calculate_status
Statuses ==
  {"No Change", "Ranking Changed", "Reply Received", "Ranking Changed + Reply Received"}

\* C12: the store mutation is unconditional. Every calculate_status call, for
\* each of the four outcomes, performs exactly one update_tracking_data of its
\* URL: afterwards the row exists, its last_known_rank is the rank passed in,
\* its previous_rank is the last_known_rank the call found (empty when it found
\* no row) and its last_checked_timestamp is the time of the call.
C12_UnconditionalUpdate ==
  last.op = "process" =>
    /\ last.status \in Statuses
    /\ last.url \in DOMAIN db
    /\ db[last.url].last_known_rank = last.rank
    /\ db[last.url].previous_rank =
         (IF last.before = None THEN None ELSE Some(last.before[1].last_known_rank))
    /\ db[last.url].last_checked_timestamp = IsoFormat(clock - 1)

\* a tracked URL is processed again with the same rank and no reply: the
\* outcome is No Change and the row has still been rewritten
C12_Witness ==
  /\ last.op = "process"
  /\ last.status = "No Change"
  /\ last.before # None
  /\ last.before[1].last_known_rank = last.rank
  /\ db[last.url].previous_rank = Some(last.rank)
  /\ db[last.url].last_checked_timestamp # last.before[1].last_checked_timestamp

\* C19: the rank-change test comes strictly before the update. For a URL that
\* is already tracked, calculate_status reports rank_changed exactly when the
\* new rank differs from the last_known_rank stored before the call, so the
\* second of two consecutive calls with the same rank reports no rank change.
C19_TestBeforeUpdate ==
  (last.op = "process" /\ last.before # None) =>
    /\ last.rank_changed <=> (last.rank # last.before[1].last_known_rank)
    /\ (Len(shifted[last.url]) = 2 /\ shifted[last.url][1] = shifted[last.url][2])
         => /\ ~last.rank_changed
            /\ last.status \in {"No Change", "Reply Received"}

\* the second run of a URL reports a rank change against the rank of the
\* first, and a third run with that same new rank reports none
C19_Witness ==
  /\ last.op = "process"
  /\ ncalls = MaxCalls
  /\ last.before # None
  /\ last.before[1].previous_rank # None
  /\ last.before[1].previous_rank # Some(last.before[1].last_known_rank)
  /\ last.before[1].last_known_rank = last.rank
  /\ ~last.rank_changed

\* C29: repeated identical runs reach a fixed point. After two consecutive
\* updates of a URL with the same rank r the row has last_known_rank =
\* previous_rank = r; a further run with rank r and no reply leaves
\* last_known_rank, previous_rank and last_reply_timestamp as they were and
\* reports No Change.
C29_FixedPoint ==
  last.op = "process" =>
    LET s == shifted[last.url]
        row == db[last.url]
    IN  /\ (Len(s) = 2 /\ s[1] = s[2]) =>
             /\ row.last_known_rank = s[2]
             /\ row.previous_rank = Some(s[2])
        /\ ( /\ ~last.has_reply /\ last.ts = None
             /\ last.before # None
             /\ last.before[1].last_known_rank = last.rank
             /\ last.before[1].previous_rank = Some(last.rank) )
           => /\ row.last_known_rank = last.before[1].last_known_rank
              /\ row.previous_rank = last.before[1].previous_rank
              /\ row.last_reply_timestamp = last.before[1].last_reply_timestamp
              /\ last.status = "No Change"

\* the third of three identical runs of a URL
C29_Witness ==
  /\ last.op = "process"
  /\ ncalls = 3
  /\ ~last.has_reply
  /\ last.before # None
  /\ last.before[1].last_known_rank = last.rank
  /\ last.before[1].previous_rank = Some(last.rank)
  /\ last.before[1].last_reply_timestamp = None
  /\ last.status = "No Change"
  /\ db[last.url].previous_rank = Some(last.rank)

\* C16: every record the background job appends for a URL, the record of a
\* failed URL included, carries one of the four status outcomes and a rank
\* among '1'..'5' and 'Out of Top 5'.
C16_RecordValues ==
  last.op \in {"process", "process_error"} =>
    /\ last.ret.Status \in Statuses
    /\ last.ret.PresentRank \in RankValues

\* ------------------------------------------- two jobs sharing the store
\* Two background jobs (two sessions of the web front-end, each with its own
\* thread and its own Database object on the same file) each process one URL.
\* A job takes the steps of the loop body of process_comments_background; each
\* SQL statement is one step, and nothing in the code holds a lock or a
\* transaction from update_tracking_data's SELECT to its INSERT OR REPLACE.
Threads == {"job1", "job2"}

\* the store as an earlier run left it
EarlierStores ==
  {<<>>} \cup
  {UpdateTrackingData(<<>>, UrlC1, r, None, IsoFormat(StartClock - 1)) : r \in {"2", OutOfTop}}

InitConc ==
  /\ db \in EarlierStores
  /\ clock = StartClock
  /\ ncalls = 0
  /\ last = NoCall
  /\ shifted = [u \in StoreUrls |-> <<>>]
  /\ th = [t \in Threads |-> [pc |-> "idle"]]
  /\ writes = <<>>
  /\ IdleGateway
  /\ IdleCalls
  /\ IdleBatch
  /\ IdleJobs

notConc == <<ncalls, last, shifted, jobVars, gwVars, callVars, batchVars>>

\* app.py:85  previous_rank = db.get_previous_rank(url)
JobGetPreviousRank(t, url) ==
  /\ th[t].pc = "idle"
  /\ th' = [th EXCEPT ![t] = [pc |-> "detect", url |-> url,
                              previous_rank |-> GetPreviousRank(db, url)]]
  /\ UNCHANGED <<db, clock, writes, notConc>>

\* app.py:87-88  detect_rank and has_recent_reply return
JobDetect(t, current_rank, reply) ==
  /\ th[t].pc = "detect"
  /\ th' = [th EXCEPT ![t] = [pc |-> "classify", url |-> @.url,
                              previous_rank |-> @.previous_rank,
                              current_rank |-> current_rank,
                              has_reply |-> reply[1], ts |-> reply[2]]]
  /\ UNCHANGED <<db, clock, writes, notConc>>

\* status_calculator.py:18  rank_changed = self.db.has_rank_changed(...)
JobHasRankChanged(t) ==
  /\ th[t].pc = "classify"
  /\ th' = [th EXCEPT ![t] = [pc |-> "select", url |-> @.url,
                              previous_rank |-> @.previous_rank,
                              current_rank |-> @.current_rank,
                              has_reply |-> @.has_reply, ts |-> @.ts,
                              rank_changed |-> HasRankChanged(db, @.url, @.current_rank)]]
  /\ UNCHANGED <<db, clock, writes, notConc>>

\* database.py:61-65  now = utcnow(); existing = self.get_last_known_data(url)
JobUpdateSelect(t) ==
  /\ th[t].pc = "select"
  /\ th' = [th EXCEPT ![t] = [pc |-> "insert", url |-> @.url,
                              previous_rank |-> @.previous_rank,
                              current_rank |-> @.current_rank,
                              has_reply |-> @.has_reply, ts |-> @.ts,
                              rank_changed |-> @.rank_changed,
                              now |-> IsoFormat(clock),
                              existing |-> GetLastKnownData(db, @.url)]]
  /\ clock' = clock + 1
  /\ UNCHANGED <<db, writes, notConc>>

\* database.py:67-82  INSERT OR REPLACE of the row built from what was read
JobUpdateInsert(t) ==
  /\ th[t].pc = "insert"
  /\ db' = InsertOrReplace(db, th[t].url,
             NewRow(th[t].existing, th[t].current_rank, th[t].ts, th[t].now))
  /\ writes' = Append(writes, [job |-> t, url |-> th[t].url, rank |-> th[t].current_rank])
  /\ th' = [th EXCEPT ![t] = [pc |-> "report", url |-> @.url,
                              previous_rank |-> @.previous_rank,
                              current_rank |-> @.current_rank,
                              has_reply |-> @.has_reply,
                              rank_changed |-> @.rank_changed]]
  /\ UNCHANGED <<clock, notConc>>

\* status_calculator.py:23-31 and app.py:91-100  the record of the URL
JobReport(t) ==
  /\ th[t].pc = "report"
  /\ th' = [th EXCEPT ![t] =
              [pc |-> "done", url |-> @.url, current_rank |-> @.current_rank,
               result |-> [URL |-> @.url,
                           Status |-> StatusOf(@.rank_changed, @.has_reply),
                           PresentRank |-> @.current_rank,
                           PreviousRank |-> PreviousRankText(@.previous_rank)]]]
  /\ UNCHANGED <<db, clock, writes, notConc>>

NextConc ==
  \/ \E t \in Threads, url \in StoreUrls : JobGetPreviousRank(t, url)
  \/ \E t \in Threads, r \in RankValues, reply \in ReplyResults : JobDetect(t, r, reply)
  \/ \E t \in Threads : JobHasRankChanged(t)
  \/ \E t \in Threads : JobUpdateSelect(t)
  \/ \E t \in Threads : JobUpdateInsert(t)
  \/ \E t \in Threads : JobReport(t)

SpecConc == InitConc /\ [][NextConc]_vars

\* C9: two concurrent runs on the same URL never interleave the store's
\* read-modify-write: once both have finished, the row's previous_rank is the
\* last_known_rank written by the run whose write was serialized first.
C9_SerializedShift ==
  ( /\ \A t \in Threads : th[t].pc = "done"
    /\ Len(writes) = 2
    /\ writes[1].url = writes[2].url )
  => /\ db[writes[2].url].last_known_rank = writes[2].rank
     /\ db[writes[2].url].previous_rank = Some(writes[1].rank)

\* C28: updates of different URLs are independent. A step changes the row of a
\* URL only if it is the INSERT OR REPLACE of an update of that URL, also when
\* the updates of two jobs interleave; every other row stays as it is, in all
\* four columns.
C28_OtherRowsUnchanged ==
  [][ \A u \in DOMAIN db :
        /\ u \in DOMAIN db'
        /\ db'[u] # db[u] =>
             /\ Len(writes') = Len(writes) + 1
             /\ writes'[Len(writes')].url = u ]_vars

\* the row of one URL was there before the jobs started; one job has written
\* the other URL while the second job, between its SELECT and its INSERT on
\* the first URL, still holds the row as it read it
C28_Witness ==
  \E t \in Threads :
    /\ th[t].pc = "insert"
    /\ th[t].url = UrlC1
    /\ th[t].existing # None
    /\ Len(writes) = 1
    /\ writes[1].url = UrlC2
    /\ writes[1].job # t
    /\ db[UrlC1] = th[t].existing[1]
    /\ db[UrlC2].last_known_rank = writes[1].rank

\* ------------------------------------------------------- the comment source
\* parent_id of a comment: "t3_<post>" or "t1_<comment>", as prefix and id
PostRef(post_id) == <<"t3", post_id>>
CommentRef(comment_id) == <<"t1", comment_id>>

\* the children of ref that a listing holds as Comment objects once
\* replace_more(limit=0) has dropped the MoreComments placeholders
Listing(ref) ==
  IF ref \in DOMAIN gwOrder
    THEN SelectSeq(gwOrder[ref], LAMBDA c : c \notin gwHidden)
    ELSE <<>>

\* the requests a call sends to the comment source, in order
Req(kind, id) == [kind |-> kind, id |-> id]

\* what can go wrong at the gateway during one call: the requests that raise
RankFailures == {{}, {"comment"}, {"submission"}, {"parent"}}

\* ------------------------------------------------------------- rank engine
DecimalDigit == <<"0", "1", "2", "3", "4", "5", "6", "7", "8", "9">>

RECURSIVE Str(_)
Str(n) == IF n < 10 THEN DecimalDigit[n + 1] ELSE Str(n \div 10) \o DecimalDigit[(n % 10) + 1]

GetParentCommentId(comment_id) ==
  IF gwParent[comment_id][1] = "t1" THEN Some(gwParent[comment_id][2]) ELSE None

IsTopLevelComment(comment_id) == gwParent[comment_id][1] = "t3"

GetTopLevelCommentsOrdered(post_id, down) ==
  [ list |-> IF "submission" \in down THEN <<>> ELSE Listing(PostRef(post_id)),
    reqs |-> <<Req("submission", post_id)>> ]

GetSiblingCommentsOrdered(comment_id, down) ==
  LET parent_id == GetParentCommentId(comment_id)
  IN  IF parent_id = None
        THEN [list |-> <<>>, reqs |-> <<>>]
        ELSE [ list |-> IF "parent" \in down \/ parent_id[1] \notin DOMAIN gwParent
                          THEN <<>>
                          ELSE Listing(CommentRef(parent_id[1])),
               reqs |-> <<Req("comment", parent_id[1])>> ]

ZeroBasedRank(target_comment_id, comments_list) ==
  LET at == {i \in 1..Len(comments_list) : comments_list[i] = target_comment_id}
  IN  IF at = {} THEN None ELSE Some(Min(at) - 1)

RankByScore(target_comment_id, comments_list) ==
  LET at == {i \in 1..Len(comments_list) : comments_list[i] = target_comment_id}
      ahead == {i \in 1..Len(comments_list) :
                  \/ gwScore[comments_list[i]] > gwScore[target_comment_id]
                  \/ /\ gwScore[comments_list[i]] = gwScore[target_comment_id]
                     /\ i < Min(at)}
  IN  IF at = {} THEN None ELSE Some(Cardinality(ahead) + 1)

FindCommentRank(target_comment_id, comments_list) ==
  LET at == {i \in 1..Len(comments_list) : comments_list[i] = target_comment_id}
  IN  IF at = {} THEN None ELSE Some(Min(at))

OnlyDeleted == {"[deleted]"}

\* the bodies of a comment that was deleted or removed
Tombstones == {"[deleted]", "[removed]"}

\* an exception on its way out of the try block of detect_rank
Raised == "raise"

Propagate(outcome) == outcome

\* except Exception: return 'Out of Top 5'
ExceptOutOfTop(outcome) == IF outcome = Raised THEN OutOfTop ELSE outcome

\* detect_rank: the rank it returns and the requests it sent
DetectRank(comment_url, down) ==
  LET target == ExtractCommentId(comment_url)
      post == ExtractPostId(comment_url)
  IN  IF target = None \/ post = None
        THEN [ret |-> OutOfTop, reqs |-> <<>>]
      ELSE LET fetch == <<Req("comment", target[1])>>
           IN  IF "comment" \in down \/ target[1] \notin DOMAIN gwParent
                 THEN [ret |-> ExceptOutOfTop(Raised), reqs |-> fetch]
               ELSE IF gwBody[target[1]] \in Tombstones
                 THEN [ret |-> OutOfTop, reqs |-> fetch]
               ELSE LET cmp == IF IsTopLevelComment(target[1])
                                 THEN GetTopLevelCommentsOrdered(post[1], down)
                                 ELSE GetSiblingCommentsOrdered(target[1], down)
                        rank == FindCommentRank(target[1], cmp.list)
                    IN  [ ret  |-> ExceptOutOfTop(
                                     IF cmp.list = <<>> THEN OutOfTop
                                     ELSE IF rank = None THEN OutOfTop
                                     ELSE IF rank[1] <= TOP_N_COMMENTS THEN Str(rank[1])
                                     ELSE OutOfTop),
                          reqs |-> fetch \o cmp.reqs ]

\* ---------------------------------------------- worlds for the rank engine
\* the comments the listings in order hold
Listed(order) == UNION {{order[ref][i] : i \in DOMAIN order[ref]} : ref \in DOMAIN order}

\* the score every comment starts with, and the score a vote raises one to
TiedScore == 1
RaisedScore == 2

\* One post p1. The target c1 is a top-level comment or a reply to c2; the
\* listing it belongs to has up to MaxList entries.
MaxList == 6

\* what the body of the target reads
Bodies == {"text", "[deleted]", "[removed]"}

IdGone == <<"c", "0">>
TopFiller(k) == <<"c", DecimalDigit[k + 2]>>
ReplyFiller(k) == <<"r", DecimalDigit[k + 1]>>

\* a listing of n entries holding the target at position p (nowhere if p = 0)
ListWith(n, p, target, Fill(_)) ==
  [i \in 1..n |-> IF i = p THEN target ELSE IF p = 0 \/ i < p THEN Fill(i) ELSE Fill(i - 1)]

RankUrls == {UrlC1, UrlC2, UrlPost, UrlNoPost, UrlUser, UrlQuery}

InitRank ==
  /\ EmptyStore
  /\ IdleConc
  /\ IdleBatch
  /\ IdleJobs
  /\ rp = NoCall
  /\ rk = NoCall
  /\ \E n \in 0..MaxList, p \in 0..MaxList, parent \in {"post", "c2", "gone"},
        present \in BOOLEAN, body \in Bodies,
        hidden \in {{}, {IdC1}, {TopFiller(1)}} :
       /\ p <= n
       /\ ~present => (n = 0 /\ parent = "post" /\ body = "text" /\ hidden = {})
       /\ gwParent =
            [c \in (IF present THEN {IdC1} ELSE {}) \cup {IdC2} |->
               IF c = IdC2 THEN PostRef(PostP)
               ELSE IF parent = "post" THEN PostRef(PostP)
               ELSE IF parent = "c2" THEN CommentRef(IdC2)
               ELSE CommentRef(IdGone)]
       /\ gwBody = [c \in DOMAIN gwParent |-> IF c = IdC1 THEN body ELSE "text"]
       /\ gwCreated = [c \in DOMAIN gwParent |-> StartClock - 100]
       /\ gwOrder =
            [ref \in {PostRef(PostP), CommentRef(IdC2)} |->
               IF ref = PostRef(PostP)
                 THEN IF parent = "post" THEN ListWith(n, p, IdC1, TopFiller)
                                         ELSE <<IdC2, TopFiller(2)>>
                 ELSE IF parent = "c2" THEN ListWith(n, p, IdC1, ReplyFiller)
                                       ELSE <<ReplyFiller(1)>>]
       /\ gwHidden = hidden
       /\ gwScore = [c \in Listed(gwOrder) \cup DOMAIN gwParent |-> TiedScore]

CallDetectRank(url, down) ==
  /\ rk = NoCall
  /\ LET r == DetectRank(url, down)
     IN  rk' = [op |-> "detect_rank", url |-> url, down |-> down,
                ret |-> r.ret, reqs |-> r.reqs]
  /\ UNCHANGED <<storeVars, concVars, jobVars, gwVars, rp, batchVars>>

\* votes arrive between two runs: the score of one comment rises, the order
\* in which the gateway lists the comments stays
Rescore(c) ==
  /\ rk.op = "detect_rank"
  /\ \A x \in DOMAIN gwScore : gwScore[x] = TiedScore
  /\ gwScore' = [gwScore EXCEPT ![c] = RaisedScore]
  /\ UNCHANGED <<storeVars, concVars, jobVars, gwParent, gwBody, gwCreated, gwOrder,
                 gwHidden, callVars, batchVars>>

\* detect_rank is called again, on the same URL, once the scores differ
CallDetectRankAgain ==
  /\ rk.op = "detect_rank"
  /\ \E x \in DOMAIN gwScore : gwScore[x] # TiedScore
  /\ LET r == DetectRank(rk.url, rk.down)
     IN  rk' = [op |-> "detect_rank_again", url |-> rk.url, down |-> rk.down,
                ret |-> r.ret, reqs |-> r.reqs, first |-> rk.ret]
  /\ UNCHANGED <<storeVars, concVars, jobVars, gwVars, rp, batchVars>>

NextRank ==
  \/ \E url \in RankUrls, down \in RankFailures : CallDetectRank(url, down)
  \/ \E c \in DOMAIN gwScore : Rescore(c)
  \/ CallDetectRankAgain

SpecRank == InitRank /\ [][NextRank]_vars

\* C4: for a target that exists and is not deleted, with no gateway failure,
\* detect_rank returns the 1-based position p of the target's first occurrence
\* in the comparison list the gateway returned when p <= 5, and 'Out of Top 5'
\* when p > 5 or when the list does not hold the target.
C4_Compared ==
  LET t == ExtractCommentId(rk.url)
      post == ExtractPostId(rk.url)
  IN  ( /\ rk.op = "detect_rank"
        /\ rk.down = {}
        /\ t # None /\ post # None
        /\ t[1] \in DOMAIN gwParent
        /\ gwBody[t[1]] \notin Tombstones
        /\ gwParent[t[1]][1] = "t1" => gwParent[t[1]][2] \in DOMAIN gwParent )
      => LET returned == IF gwParent[t[1]][1] = "t3" THEN Listing(PostRef(post[1]))
                                                     ELSE Listing(gwParent[t[1]])
             at == {i \in 1..Len(returned) : returned[i] = t[1]}
         IN  /\ at = {} => rk.ret = OutOfTop
             /\ at # {} =>
                  \E p \in at :
                    /\ \A i \in at : p <= i
                    /\ p <= 5 => rk.ret = <<"1", "2", "3", "4", "5">>[p]
                    /\ p > 5 => rk.ret = OutOfTop

\* the target is the fifth of six siblings under its parent
C4_Witness ==
  /\ rk.op = "detect_rank"
  /\ rk.url = UrlQuery
  /\ rk.down = {}
  /\ IdC1 \in DOMAIN gwParent
  /\ gwParent[IdC1] = CommentRef(IdC2)
  /\ Len(Listing(CommentRef(IdC2))) >= 5
  /\ Listing(CommentRef(IdC2))[5] = IdC1
  /\ rk.ret = "5"

\* the target is the sixth top-level comment
C4_WitnessBeyond ==
  /\ rk.op = "detect_rank"
  /\ rk.down = {}
  /\ IdC1 \in DOMAIN gwParent
  /\ Len(Listing(PostRef(PostP))) = 6
  /\ Listing(PostRef(PostP))[6] = IdC1
  /\ rk.ret = OutOfTop

\* the requests of the last detect_rank call that the gateway failed
FailedRequests ==
  {i \in 1..Len(rk.reqs) :
     \/ i = 1 /\ "comment" \in rk.down
     \/ i = 2 /\ rk.reqs[i].kind = "submission" /\ "submission" \in rk.down
     \/ i = 2 /\ rk.reqs[i].kind = "comment" /\ "parent" \in rk.down}

\* the target of the last call is a reply whose parent cannot be resolved
ParentUnresolvable ==
  LET t == ExtractCommentId(rk.url)
  IN  /\ t # None
      /\ ExtractPostId(rk.url) # None
      /\ t[1] \in DOMAIN gwParent
      /\ gwParent[t[1]][1] = "t1"
      /\ gwParent[t[1]][2] \notin DOMAIN gwParent

\* C14: detect_rank never raises and returns one of '1'..'5', 'Out of Top 5'
\* (never zero, never a negative number). A gateway failure while fetching
\* the target, the top-level list or the parent with its replies, and a reply
\* target whose parent cannot be resolved, all give 'Out of Top 5'.
C14_NeverRaises ==
  rk.op = "detect_rank" =>
    /\ rk.ret \in RankValues
    /\ FailedRequests # {} => rk.ret = OutOfTop
    /\ ParentUnresolvable => rk.ret = OutOfTop

\* the target is a reply among the first five of its parent, and the fetch of
\* the parent fails
C14_Witness ==
  /\ rk.op = "detect_rank"
  /\ rk.url = UrlC1
  /\ rk.down = {"parent"}
  /\ FailedRequests = {2}
  /\ gwHidden = {}
  /\ IdC1 \in DOMAIN gwParent
  /\ gwBody[IdC1] = "text"
  /\ gwParent[IdC1] = CommentRef(IdC2)
  /\ Len(gwOrder[CommentRef(IdC2)]) >= 2
  /\ gwOrder[CommentRef(IdC2)][2] = IdC1
  /\ rk.ret = OutOfTop

\* C20: rank detection sees the fully expanded comparison list. A target at
\* position p <= 5 of the complete ordered list of its post (or of its parent)
\* is reported with rank p, whether or not the first response of the gateway
\* holds some of that list behind a 'load more' placeholder.
C20_FullyExpanded ==
  LET t == ExtractCommentId(rk.url)
      post == ExtractPostId(rk.url)
  IN  ( /\ rk.op = "detect_rank"
        /\ rk.down = {}
        /\ t # None /\ post # None
        /\ t[1] \in DOMAIN gwParent
        /\ gwBody[t[1]] \notin Tombstones
        /\ gwParent[t[1]] \in DOMAIN gwOrder )
      => LET complete == gwOrder[gwParent[t[1]]]
             at == {i \in 1..Len(complete) : complete[i] = t[1]}
         IN  (at # {} /\ Min(at) <= TOP_N_COMMENTS) => rk.ret = Str(Min(at))

\* C22: a target whose body is a tombstone marker ('[deleted]' or '[removed]')
\* gets 'Out of Top 5' at once: detect_rank sends no request beyond the fetch
\* of the target itself, even when the target's id is still among the first
\* five of its comparison list.
C22_TombstoneShortCircuits ==
  LET t == ExtractCommentId(rk.url)
  IN  ( /\ rk.op = "detect_rank"
        /\ rk.down = {}
        /\ t # None /\ ExtractPostId(rk.url) # None
        /\ t[1] \in DOMAIN gwParent
        /\ gwBody[t[1]] \in {"[deleted]", "[removed]"} )
      => /\ rk.ret = OutOfTop
         /\ rk.reqs = <<Req("comment", t[1])>>

\* the removed target is still listed second among the top-level comments
C22_Witness ==
  /\ rk.op = "detect_rank"
  /\ rk.url = UrlC1
  /\ rk.down = {}
  /\ gwHidden = {}
  /\ IdC1 \in DOMAIN gwParent
  /\ gwBody[IdC1] = "[removed]"
  /\ gwParent[IdC1] = PostRef(PostP)
  /\ Len(gwOrder[PostRef(PostP)]) >= 2
  /\ gwOrder[PostRef(PostP)][2] = IdC1
  /\ rk.ret = OutOfTop
  /\ rk.reqs = <<Req("comment", IdC1)>>

\* the last call ranked a live reply whose parent was fetched
RankedReply ==
  LET t == ExtractCommentId(rk.url)
  IN  /\ rk.op = "detect_rank"
      /\ rk.down = {}
      /\ t # None /\ ExtractPostId(rk.url) # None
      /\ t[1] \in DOMAIN gwParent
      /\ gwBody[t[1]] \notin Tombstones
      /\ gwParent[t[1]][1] = "t1"
      /\ gwParent[t[1]][2] \in DOMAIN gwParent

\* the rank that position p of the first occurrence of the target stands for
RankAt(at) ==
  IF at = {} THEN OutOfTop
  ELSE IF Min(at) <= TOP_N_COMMENTS THEN Str(Min(at)) ELSE OutOfTop

\* C25: for a reply target the comparison set is exactly the direct children
\* of its immediate parent, in the gateway's order: the rank is the target's
\* index among them, and the top-level list of the post is not consulted.
C25_SiblingsOnly ==
  RankedReply =>
    LET t == ExtractCommentId(rk.url)[1]
        siblings == gwOrder[gwParent[t]]
    IN  /\ rk.ret = RankAt({i \in 1..Len(siblings) : siblings[i] = t})
        /\ rk.reqs = <<Req("comment", t), Req("comment", gwParent[t][2])>>

\* What does hold: the comparison set is the direct children of the parent
\* that the gateway's response holds as Comment objects, and nothing else.
ReturnedSiblingsOnly ==
  RankedReply =>
    LET t == ExtractCommentId(rk.url)[1]
        siblings == Listing(gwParent[t])
    IN  /\ rk.ret = RankAt({i \in 1..Len(siblings) : siblings[i] = t})
        /\ rk.reqs = <<Req("comment", t), Req("comment", gwParent[t][2])>>

\* C26: the rank depends only on the order of the ids in the list the gateway
\* returned. A second call on the same URL, after scores have changed while
\* the id sequence has not, returns the rank of the first call.
C26_OrderOnly ==
  rk.op = "detect_rank_again" => rk.ret = rk.first

\* the target is second of the top-level list and tied with the first; the
\* third has since got a higher score, and the target is still ranked '2'
C26_Witness ==
  /\ rk.op = "detect_rank_again"
  /\ rk.url = UrlC1
  /\ rk.down = {}
  /\ gwHidden = {}
  /\ IdC1 \in DOMAIN gwParent
  /\ gwBody[IdC1] = "text"
  /\ gwParent[IdC1] = PostRef(PostP)
  /\ Len(gwOrder[PostRef(PostP)]) >= 3
  /\ gwOrder[PostRef(PostP)][2] = IdC1
  /\ gwScore[gwOrder[PostRef(PostP)][1]] = gwScore[IdC1]
  /\ gwScore[gwOrder[PostRef(PostP)][3]] > gwScore[IdC1]
  /\ rk.first = "2"
  /\ rk.ret = "2"

\* ------------------------------------------------------------ reply scanner
Range(f) == {f[i] : i \in DOMAIN f}
Max(S) == CHOOSE x \in S : \A y \in S : y <= x

\* check_replies: the most recent reply time so far (nonlocal), after the
\* replies of comment_obj and everything below them have been visited.
\* broken: the comments whose replies cannot be expanded (replace_more raises).
RECURSIVE CheckReplies(_, _, _, _)
RECURSIVE VisitReplies(_, _, _, _, _)
ForgetOnFailure(comment_obj, most_recent, cutoff, broken) ==
  IF comment_obj \in broken
    THEN None
    ELSE VisitReplies(Listing(CommentRef(comment_obj)), 1, most_recent, cutoff, broken)

CheckReplies(comment_obj, most_recent, cutoff, broken) ==
  IF comment_obj \in broken
    THEN most_recent
    ELSE VisitReplies(Listing(CommentRef(comment_obj)), 1, most_recent, cutoff, broken)

VisitReplies(replies, i, most_recent, cutoff, broken) ==
  IF i > Len(replies)
    THEN most_recent
    ELSE LET reply_time == gwCreated[replies[i]]
             seen == IF reply_time >= cutoff
                        /\ (most_recent = None \/ reply_time > most_recent[1])
                       THEN Some(reply_time)
                       ELSE most_recent
         IN  VisitReplies(replies, i + 1,
                          CheckReplies(replies[i], seen, cutoff, broken), cutoff, broken)

ReplyFailures == {{}, {"comment"}}

Reraise(outcome) == outcome

\* except PRAWException / except Exception: return False, None
ExceptNoReply(outcome) == IF outcome = Raised THEN <<FALSE, None>> ELSE outcome

\* has_recent_reply: the pair it returns and the requests it sent
StampWithoutFlag(most_recent) ==
  IF most_recent # None
    THEN <<FALSE, Some(IsoFormat(most_recent[1]))>>
    ELSE <<FALSE, None>>

\* if most_recent_reply_time: return True, timestamp_str / return False, None
ReplyAnswer(most_recent) ==
  IF most_recent # None /\ most_recent[1] # 0
    THEN <<TRUE, Some(IsoFormat(most_recent[1]))>>
    ELSE <<FALSE, None>>

HasRecentReply(comment_url, now, down, broken) ==
  LET comment_id == ExtractCommentId(comment_url)
  IN  IF comment_id = None
        THEN [ret |-> <<FALSE, None>>, reqs |-> <<>>]
      ELSE IF "comment" \in down \/ comment_id[1] \notin DOMAIN gwParent
        THEN [ret |-> ExceptNoReply(Raised), reqs |-> <<Req("comment", comment_id[1])>>]
      ELSE LET cutoff == now - REPLY_WINDOW_HOURS
               most_recent == CheckReplies(comment_id[1], None, cutoff, broken)
           IN  [ ret  |-> ReplyAnswer(most_recent),
                 reqs |-> <<Req("comment", comment_id[1])>> ]

\* -------------------------------------------- worlds for the reply scanner
\* The target c1 is a top-level comment of p1 with up to MaxReplies comments
\* below it, in any tree shape; each was created just before the cutoff, at
\* the cutoff or after it; at most one of them sits behind a placeholder.
MaxReplies == 3

Cutoff0 == StartClock - REPLY_WINDOW_HOURS
CreatedTimes == {Cutoff0 - 1, Cutoff0, Cutoff0 + 20}

ReplyNode(i) == IF i = 0 THEN IdC1 ELSE ReplyFiller(i)

ReplyUrls == {UrlC1, UrlPost, UrlNoPost}

InitReply ==
  /\ EmptyStore
  /\ IdleConc
  /\ IdleBatch
  /\ IdleJobs
  /\ rk = NoCall
  /\ rp = NoCall
  /\ \E k \in 0..MaxReplies :
       \E par \in [1..k -> 0..MaxReplies], made \in [1..k -> CreatedTimes],
          hid \in 0..k :
         /\ \A i \in 1..k : par[i] < i
         /\ gwParent = [c \in {ReplyNode(i) : i \in 0..k} |->
                          IF c = IdC1 THEN PostRef(PostP)
                          ELSE CommentRef(ReplyNode(par[CHOOSE i \in 1..k : ReplyNode(i) = c]))]
         /\ gwBody = [c \in DOMAIN gwParent |-> "text"]
         /\ gwCreated = [c \in DOMAIN gwParent |->
                           IF c = IdC1 THEN Cutoff0 - 1
                           ELSE made[CHOOSE i \in 1..k : ReplyNode(i) = c]]
         /\ gwOrder =
              [ref \in {PostRef(PostP)} \cup {CommentRef(c) : c \in DOMAIN gwParent} |->
                 IF ref = PostRef(PostP) THEN <<IdC1>>
                 ELSE LET kids == {i \in 1..k : ReplyNode(par[i]) = ref[2]}
                          Nth[n \in 1..Cardinality(kids)] ==
                            CHOOSE i \in kids : Cardinality({j \in kids : j < i}) = n - 1
                      IN  [n \in 1..Cardinality(kids) |-> ReplyNode(Nth[n])]]
         /\ gwHidden = IF hid = 0 THEN {} ELSE {ReplyNode(hid)}
         /\ gwScore = [c \in DOMAIN gwParent |-> TiedScore]

CallHasRecentReply(url, down, broken) ==
  /\ rp = NoCall
  /\ LET r == HasRecentReply(url, clock, down, broken)
     IN  rp' = [op |-> "has_recent_reply", url |-> url, down |-> down,
                broken |-> broken, now |-> clock, ret |-> r.ret, reqs |-> r.reqs]
  /\ UNCHANGED <<storeVars, concVars, jobVars, gwVars, rk, batchVars>>

NextReply ==
  \E url \in ReplyUrls, down \in ReplyFailures,
     broken \in {{}} \cup {{c} : c \in DOMAIN gwParent} :
    CallHasRecentReply(url, down, broken)

SpecReply == InitReply /\ [][NextReply]_vars

\* every comment below c in the comment source's tree
RECURSIVE Subtree(_)
Subtree(c) ==
  LET kids == Range(gwOrder[CommentRef(c)])
  IN  kids \cup UNION {Subtree(kid) : kid \in kids}

\* the comments below c that the fetched forest holds as Comment objects
RECURSIVE LoadedSubtree(_)
LoadedSubtree(c) ==
  LET kids == Range(Listing(CommentRef(c)))
  IN  kids \cup UNION {LoadedSubtree(kid) : kid \in kids}

ScanCompleted ==
  /\ rp.op = "has_recent_reply"
  /\ rp.down = {}
  /\ rp.broken = {}
  /\ ExtractCommentId(rp.url) # None
  /\ ExtractCommentId(rp.url)[1] \in DOMAIN gwParent

\* C6: the reply scan covers the whole descendant subtree. If any descendant of
\* the target, at any depth, was created at or after the cutoff, then
\* has_recent_reply returns true and the timestamp of the latest such
\* descendant.
C6_WholeSubtree ==
  ScanCompleted =>
    LET recent == {gwCreated[c] : c \in {x \in Subtree(ExtractCommentId(rp.url)[1]) :
                                           gwCreated[x] >= rp.now - REPLY_WINDOW_HOURS}}
    IN  recent # {} => rp.ret = <<TRUE, Some(IsoFormat(Max(recent)))>>

\* What the scan does cover: the replies the fetched forest holds as Comment
\* objects, at every depth.
ScanCoversLoadedSubtree ==
  ScanCompleted =>
    LET recent == {gwCreated[c] : c \in {x \in LoadedSubtree(ExtractCommentId(rp.url)[1]) :
                                           gwCreated[x] >= rp.now - REPLY_WINDOW_HOURS}}
    IN  /\ recent # {} => rp.ret = <<TRUE, Some(IsoFormat(Max(recent)))>>
        /\ recent = {} => rp.ret = <<FALSE, None>>

\* the call fetched its target and no branch of the traversal failed
FetchedTarget ==
  /\ rp.op = "has_recent_reply"
  /\ rp.down = {}
  /\ ExtractCommentId(rp.url) # None
  /\ ExtractCommentId(rp.url)[1] \in DOMAIN gwParent

\* C21: the reply scan expands collapsed placeholders at every level. When a
\* reply created at or after the cutoff sits, at any depth below the target,
\* behind a placeholder of the gateway's first response, has_recent_reply
\* still returns true.
C21_PlaceholdersExpanded ==
  (FetchedTarget /\ rp.broken = {}) =>
    ( (\E c \in Subtree(ExtractCommentId(rp.url)[1]) \cap gwHidden :
         gwCreated[c] >= rp.now - REPLY_WINDOW_HOURS)
      => rp.ret[1] = TRUE )

\* the comments below c that the traversal reaches: the replies of c, unless
\* its replies cannot be expanded, and what the traversal reaches below them
RECURSIVE Reached(_, _)
Reached(c, broken) ==
  IF c \in broken THEN {}
  ELSE LET kids == Range(Listing(CommentRef(c)))
       IN  kids \cup UNION {Reached(kid, broken) : kid \in kids}

\* C23: a traversal failure in one branch is swallowed locally. When the
\* replies of one comment of the tree cannot be expanded, the replies created
\* at or after the cutoff in the branches the traversal does reach, visited
\* before or after the failing one, make has_recent_reply return true with the
\* latest of their timestamps.
C23_FailureSwallowed ==
  (FetchedTarget /\ rp.broken # {}) =>
    LET recent == {gwCreated[c] : c \in {x \in Reached(ExtractCommentId(rp.url)[1], rp.broken) :
                                           gwCreated[x] >= rp.now - REPLY_WINDOW_HOURS}}
    IN  recent # {} => rp.ret = <<TRUE, Some(IsoFormat(Max(recent)))>>

\* the first reply of the target cannot be expanded and hides a recent reply
\* below it; the target's second reply, visited afterwards, is recent, and so
\* is the first reply itself, visited before the failure
C23_Witness ==
  /\ FetchedTarget
  /\ rp.broken = {ReplyFiller(1)}
  /\ gwHidden = {}
  /\ DOMAIN gwParent = {IdC1, ReplyFiller(1), ReplyFiller(2), ReplyFiller(3)}
  /\ gwParent[ReplyFiller(1)] = CommentRef(IdC1)
  /\ gwParent[ReplyFiller(2)] = CommentRef(ReplyFiller(1))
  /\ gwParent[ReplyFiller(3)] = CommentRef(IdC1)
  /\ gwCreated[ReplyFiller(1)] = Cutoff0
  /\ gwCreated[ReplyFiller(2)] = Cutoff0 + 20
  /\ gwCreated[ReplyFiller(3)] = Cutoff0
  /\ rp.ret = <<TRUE, Some(IsoFormat(Cutoff0))>>

\* C24: has_recent_reply never raises. A URL with no comment id, a failed
\* fetch of the target and a tree in which the traversal meets no reply at or
\* after the cutoff all return exactly (False, None); every other call returns
\* true with a timestamp.
C24_NeverRaises ==
  rp.op = "has_recent_reply" =>
    LET id == ExtractCommentId(rp.url)
    IN  /\ rp.ret \in {<<FALSE, None>>} \cup
                       {<<TRUE, Some(IsoFormat(t))>> : t \in CreatedTimes}
        /\ id = None => rp.ret = <<FALSE, None>>
        /\ (id # None /\ ("comment" \in rp.down \/ id[1] \notin DOMAIN gwParent))
             => rp.ret = <<FALSE, None>>
        /\ (FetchedTarget /\ \A c \in Reached(id[1], rp.broken) :
                                gwCreated[c] < rp.now - REPLY_WINDOW_HOURS)
             => rp.ret = <<FALSE, None>>

\* the fetch of the target fails although one of its replies is recent
C24_Witness ==
  /\ rp.op = "has_recent_reply"
  /\ rp.url = UrlC1
  /\ rp.down = {"comment"}
  /\ rp.broken = {}
  /\ gwHidden = {}
  /\ IdC1 \in DOMAIN gwParent
  /\ \E c \in LoadedSubtree(IdC1) : gwCreated[c] >= rp.now - REPLY_WINDOW_HOURS
  /\ rp.ret = <<FALSE, None>>
  /\ rp.reqs = <<Req("comment", IdC1)>>

\* ------------------------------------------------------- batch orchestrator
MaxBatch == 3
MaxWorkers == 2

BatchUrls == {UrlC1, UrlNoPost, UrlUser}
BatchFailures == {{}, {"comment"}}

Discard(results, record) == results

\* results.append(result)
Prepend(results, record) == <<record>> \o results

Emit(results, record) == Append(results, record)

PutAlone(dict, key, value) == [k \in {key} |-> value]

\* rank_results[url] = rank, reply_results[url] = (has_reply, timestamp)
Put(dict, key, value) == [k \in (DOMAIN dict) \cup {key} |-> IF k = key THEN value ELSE dict[k]]

\* a call that sent the requests reqs met a failure of the gateway
Faulted(down, reqs) == \E k \in 1..Len(reqs) : reqs[k].kind \in down

\* the record of process_single_comment and of phase 3
Record(url, status, rank) == [URL |-> url, Status |-> status, PresentRank |-> rank]

\* The comment source during a batch: p1 lists c2 then c1; c1 has one reply,
\* created after the cutoff.
InitBatch ==
  /\ EmptyStore
  /\ IdleConc
  /\ IdleCalls
  /\ IdleJobs
  /\ gwParent = [c \in {IdC1, IdC2, ReplyFiller(1)} |->
                   IF c = ReplyFiller(1) THEN CommentRef(IdC1) ELSE PostRef(PostP)]
  /\ gwBody = [c \in DOMAIN gwParent |-> "text"]
  /\ gwCreated = [c \in DOMAIN gwParent |->
                    IF c = ReplyFiller(1) THEN Cutoff0 + 20 ELSE Cutoff0 - 1]
  /\ gwOrder = [ref \in {PostRef(PostP), CommentRef(IdC1), CommentRef(IdC2),
                         CommentRef(ReplyFiller(1))} |->
                  IF ref = PostRef(PostP) THEN <<IdC2, IdC1>>
                  ELSE IF ref = CommentRef(IdC1) THEN <<ReplyFiller(1)>>
                  ELSE <<>>]
  /\ gwHidden = {}
  /\ gwScore = [c \in DOMAIN gwParent |-> TiedScore]
  /\ bMode \in {"seq", "par"}
  /\ \E n \in 1..MaxBatch : bInput \in [1..n -> BatchUrls]
  /\ bPc = IF bMode = "seq" THEN "rank" ELSE "phase1"
  /\ bIdx = 1
  /\ bRank = <<>>
  /\ bReply = <<>>
  /\ bTask = <<>>
  /\ bOrder = <<>>
  /\ bResults = <<>>
  /\ bReqs = [i \in 1..Len(bInput) |-> <<>>]
  /\ bFault = [i \in 1..Len(bInput) |-> {}]

notBatch == <<ncalls, last, shifted, concVars, jobVars, gwVars, callVars>>

\* process_batch -> process_single_comment: detect_rank(comment_url)
SeqDetectRank(down) ==
  /\ bPc = "rank"
  /\ LET r == DetectRank(bInput[bIdx], down)
     IN  /\ bRank' = Put(<<>>, bInput[bIdx], r.ret)
         /\ bReqs' = [bReqs EXCEPT ![bIdx] = @ \o r.reqs]
         /\ bFault' = IF Faulted(down, r.reqs)
                        THEN [bFault EXCEPT ![bIdx] = @ \cup {"rank"}] ELSE bFault
  /\ bPc' = "reply"
  /\ UNCHANGED <<db, clock, bMode, bInput, bIdx, bReply, bTask, bOrder, bResults, notBatch>>

\* process_single_comment: has_recent_reply(comment_url)
SeqReplyCheck(down) ==
  /\ bPc = "reply"
  /\ LET r == HasRecentReply(bInput[bIdx], clock, down, {})
     IN  /\ bReply' = Put(<<>>, bInput[bIdx], r.ret)
         /\ bReqs' = [bReqs EXCEPT ![bIdx] = @ \o r.reqs]
         /\ bFault' = IF Faulted(down, r.reqs)
                        THEN [bFault EXCEPT ![bIdx] = @ \cup {"reply"}] ELSE bFault
  /\ bPc' = "status"
  /\ UNCHANGED <<db, clock, bMode, bInput, bIdx, bRank, bTask, bOrder, bResults, notBatch>>

SeqAdvance ==
  IF bIdx = Len(bInput)
    THEN bPc' = "returned" /\ bIdx' = bIdx
    ELSE bPc' = "rank" /\ bIdx' = bIdx + 1

\* process_single_comment: calculate_status and the result record
SeqStatus ==
  /\ bPc = "status"
  /\ LET url == bInput[bIdx]
         r == CalculateStatus(db, url, bRank[url], bReply[url][1], bReply[url][2],
                              IsoFormat(clock))
     IN  /\ db' = r.db
         /\ bResults' = Emit(bResults, Record(url, r.status, bRank[url]))
  /\ clock' = clock + 1
  /\ SeqAdvance
  /\ UNCHANGED <<bMode, bInput, bRank, bReply, bTask, bOrder, bReqs, bFault, notBatch>>

\* process_single_comment: the store raises, the except branch answers
SeqStoreError ==
  /\ bPc = "status"
  /\ bResults' = Emit(bResults, Record(bInput[bIdx], "No Change", OutOfTop))
  /\ bFault' = [bFault EXCEPT ![bIdx] = @ \cup {"store"}]
  /\ SeqAdvance
  /\ UNCHANGED <<db, clock, bMode, bInput, bRank, bReply, bTask, bOrder, bReqs, notBatch>>

\* process_batch_parallel, phase 1: ranks, one URL after the other
ParDetectRank(down) ==
  /\ bPc = "phase1"
  /\ LET r == DetectRank(bInput[bIdx], down)
     IN  /\ bRank' = Put(bRank, bInput[bIdx], r.ret)
         /\ bReqs' = [bReqs EXCEPT ![bIdx] = @ \o r.reqs]
         /\ bFault' = IF Faulted(down, r.reqs)
                        THEN [bFault EXCEPT ![bIdx] = @ \cup {"rank"}] ELSE bFault
  /\ IF bIdx = Len(bInput)
       THEN /\ bPc' = "phase2"
            /\ bIdx' = bIdx
            /\ bTask' = [i \in 1..Len(bInput) |-> [st |-> "queued"]]
       ELSE /\ bPc' = "phase1"
            /\ bIdx' = bIdx + 1
            /\ bTask' = bTask
  /\ UNCHANGED <<db, clock, bMode, bInput, bReply, bOrder, bResults, notBatch>>

Running == {i \in DOMAIN bTask : bTask[i].st = "running"}

AlwaysFree(running) == TRUE

\* ThreadPoolExecutor(max_workers=self.max_workers): a worker is idle
WorkerFree(running) == Cardinality(running) < MaxWorkers

\* self.reddit, the session of the processor that RankDetector(self.reddit) uses
SharedSession == 0

ReuseSession(task) == SharedSession

\* ReplyDetector() in check_reply: praw.Reddit(...) builds a session of its own;
\* sessions are numbered in the order they are built
NewSession(task) == 1 + Cardinality({j \in DOMAIN task : task[j].st # "queued"})

FirstCompleted(task, i) == TRUE

\* the with-block of the executor and the as_completed loop are left when
\* the future i was the last one outstanding
Joined(task, i) == \A j \in DOMAIN task : j # i => task[j].st = "collected"

\* phase 2: a free worker of the pool takes the next submitted check_reply
ParStart(i) ==
  /\ bPc = "phase2"
  /\ bTask[i].st = "queued"
  /\ \A j \in 1..(i - 1) : bTask[j].st # "queued"
  /\ WorkerFree(Running)
  /\ bTask' = [bTask EXCEPT ![i] = [st |-> "running", session |-> NewSession(bTask)]]
  /\ UNCHANGED <<db, clock, bMode, bInput, bPc, bIdx, bRank, bReply, bOrder, bResults,
                 bReqs, bFault, notBatch>>

\* phase 2: check_reply(url) returns in its worker
ParFinish(i, down) ==
  /\ bPc = "phase2"
  /\ bTask[i].st = "running"
  /\ LET r == HasRecentReply(bInput[i], clock, down, {})
     IN  /\ bTask' = [bTask EXCEPT ![i] = [st |-> "finished", ret |-> r.ret]]
         /\ bReqs' = [bReqs EXCEPT ![i] = @ \o r.reqs]
         /\ bFault' = IF Faulted(down, r.reqs)
                        THEN [bFault EXCEPT ![i] = @ \cup {"reply"}] ELSE bFault
  /\ UNCHANGED <<db, clock, bMode, bInput, bPc, bIdx, bRank, bReply, bOrder, bResults,
                 notBatch>>

\* phase 2: as_completed hands a finished future to the main thread
ParCollect(i) ==
  /\ bPc = "phase2"
  /\ bTask[i].st = "finished"
  /\ bReply' = Put(bReply, bInput[i], bTask[i].ret)
  /\ bTask' = [bTask EXCEPT ![i] = [st |-> "collected"]]
  /\ bOrder' = Append(bOrder, i)
  /\ IF Joined(bTask, i)
       THEN bPc' = "phase3" /\ bIdx' = 1
       ELSE bPc' = bPc /\ bIdx' = bIdx
  /\ UNCHANGED <<db, clock, bMode, bInput, bRank, bResults, bReqs, bFault, notBatch>>

ParAdvance ==
  IF bIdx = Len(bInput)
    THEN bPc' = "returned" /\ bIdx' = bIdx
    ELSE bPc' = "phase3" /\ bIdx' = bIdx + 1

\* phase 3: calculate_status and the result record, in input order
ParStatus ==
  /\ bPc = "phase3"
  /\ LET url == bInput[bIdx]
         rank == IF url \in DOMAIN bRank THEN bRank[url] ELSE OutOfTop
         reply == IF url \in DOMAIN bReply THEN bReply[url] ELSE <<FALSE, None>>
         r == CalculateStatus(db, url, rank, reply[1], reply[2], IsoFormat(clock))
     IN  /\ db' = r.db
         /\ bResults' = Emit(bResults, Record(url, r.status, rank))
  /\ clock' = clock + 1
  /\ ParAdvance
  /\ UNCHANGED <<bMode, bInput, bRank, bReply, bTask, bOrder, bReqs, bFault, notBatch>>

\* phase 3: the store raises; nothing catches it in process_batch_parallel
ParStoreError ==
  /\ bPc = "phase3"
  /\ bPc' = "raised"
  /\ bFault' = [bFault EXCEPT ![bIdx] = @ \cup {"store"}]
  /\ UNCHANGED <<db, clock, bMode, bInput, bIdx, bRank, bReply, bTask, bOrder, bResults,
                 bReqs, notBatch>>

NextBatch ==
  \/ \E down \in BatchFailures : SeqDetectRank(down)
  \/ \E down \in BatchFailures : SeqReplyCheck(down)
  \/ SeqStatus
  \/ SeqStoreError
  \/ \E down \in BatchFailures : ParDetectRank(down)
  \/ \E i \in DOMAIN bTask : ParStart(i)
  \/ \E i \in DOMAIN bTask, down \in BatchFailures : ParFinish(i, down)
  \/ \E i \in DOMAIN bTask : ParCollect(i)
  \/ ParStatus
  \/ ParStoreError

SpecBatch == InitBatch /\ [][NextBatch]_vars

\* C7: a batch that returns, in either mode, returns exactly one record per
\* input entry, the i-th record carrying the i-th input URL.
C7_OneRecordPerEntry ==
  /\ Len(bResults) <= Len(bInput)
  /\ \A i \in 1..Len(bResults) : bResults[i].URL = bInput[i]
  /\ bPc = "returned" => Len(bResults) = Len(bInput)

\* a parallel batch of three entries, one of them malformed, returned after
\* its reply checks were collected out of input order
C7_Witness ==
  /\ bMode = "par"
  /\ bPc = "returned"
  /\ Len(bInput) = 3
  /\ bInput[1] # bInput[2]
  /\ bInput[3] = UrlUser
  /\ bOrder[1] = 2
  /\ bOrder[2] = 1

Malformed(url) == ExtractCommentId(url) = None \/ ExtractPostId(url) = None

\* C10: an entry whose post id or comment id cannot be extracted gets rank
\* 'Out of Top 5' and no request is sent to the comment source for it, neither
\* by rank detection nor by the reply scan.
C10_MalformedShortCircuits ==
  \A i \in 1..Len(bResults) :
    Malformed(bInput[i]) =>
      /\ bResults[i].PresentRank = OutOfTop
      /\ bReqs[i] = <<>>

\* C11: a failure of the tracking store during a batch is fatal for the batch.
\* Once has_rank_changed or update_tracking_data has raised for an entry, the
\* batch has ended with that exception: no record stands for the entry and the
\* batch goes on to no further entry.
C11_StoreFailureFatal ==
  \A i \in DOMAIN bFault :
    "store" \in bFault[i] =>
      /\ bPc = "raised"
      /\ Len(bResults) < i

\* the entries of the batch that carry the same URL as entry i
SameUrl(i) == {j \in DOMAIN bInput : bInput[j] = bInput[i]}

\* what rank detection and the reply check return for a URL when nothing fails
CleanRank(url) == DetectRank(url, {}).ret
CleanReply(url) == HasRecentReply(url, StartClock, {}, {}).ret

\* C15: in staged-parallel mode a failure of rank detection or of the reply
\* check degrades only the URL it happened to. A URL none of whose entries met
\* a failure gets the rank, the reply result and the status of a batch without
\* failures; a URL that met one gets, for the failed part, either that or the
\* default ('Out of Top 5', no reply); and short of a store failure the batch
\* does not end with an exception.
C15_FailureIsolated ==
  bMode = "par" =>
    /\ \A i \in 1..Len(bResults) :
         LET url == bInput[i]
             ranks == {CleanRank(url)} \cup
                      (IF \E j \in SameUrl(i) : "rank" \in bFault[j] THEN {OutOfTop} ELSE {})
             replies == {CleanReply(url)[1]} \cup
                        (IF \E j \in SameUrl(i) : "reply" \in bFault[j] THEN {FALSE} ELSE {})
         IN  /\ bResults[i].PresentRank \in ranks
             /\ bResults[i].Status \in {StatusOf(FALSE, hr) : hr \in replies}
             /\ (\A j \in SameUrl(i) : "rank" \in bFault[j])
                  => bResults[i].PresentRank = OutOfTop
             /\ (\A j \in SameUrl(i) : "reply" \in bFault[j])
                  => bResults[i].Status = "No Change"
    /\ bPc = "raised" => \E i \in DOMAIN bFault : "store" \in bFault[i]

\* a parallel batch returned; the reply check of its first entry failed, and
\* its second entry, another URL, has its rank '2' and its recent reply
C15_Witness ==
  /\ bMode = "par"
  /\ bPc = "returned"
  /\ Len(bInput) >= 2
  /\ bInput[1] = UrlNoPost
  /\ bFault[1] = {"reply"}
  /\ bResults[1] = Record(UrlNoPost, "No Change", OutOfTop)
  /\ bInput[2] = UrlC1
  /\ bFault[2] = {}
  /\ bResults[2] = Record(UrlC1, "Reply Received", "2")

\* a parallel batch returned; rank detection and the reply check of its first
\* entry failed, and the reply check of its second entry found the reply
C15_WitnessRank ==
  /\ bMode = "par"
  /\ bPc = "returned"
  /\ Len(bInput) >= 2
  /\ bInput[1] = UrlC1
  /\ bFault[1] = {"rank", "reply"}
  /\ bResults[1] = Record(UrlC1, "No Change", OutOfTop)
  /\ bInput[2] = UrlNoPost
  /\ bFault[2] = {}
  /\ bResults[2] = Record(UrlNoPost, "Reply Received", OutOfTop)

\* config.OUTPUT_COLUMNS, as the field names of a record
OUTPUT_COLUMNS == {"URL", "Status", "PresentRank", "PreviousRank"}

\* C17: every record of process_single_comment, process_batch and
\* process_batch_parallel has the fields URL, Status, Present Rank and Previous
\* Rank, the columns the export step selects.
C17_RecordFields ==
  \A i \in 1..Len(bResults) : DOMAIN bResults[i] = OUTPUT_COLUMNS

\* ------------------------------------- the job table of the web front-end
\* The id of a job is the id of the browser session that asked for it. The
\* thread of a job reaches the table only under job_lock, so each block under
\* the lock is one step. time.time() is counted in hours.
Sessions == {"s1", "s2"}

\* background threads a behaviour starts, URLs of one job, hours it lasts
MaxThreads == 2
MaxJobUrls == 2
MaxHours == 2

ThreadIds == 1..MaxThreads

\* cleanup_old_jobs: the age, in hours, beyond which a job is removed
CleanupAfterHours == 1

NoThread == [pc |-> "none"]

InitJobs ==
  /\ EmptyStore
  /\ IdleConc
  /\ IdleGateway
  /\ IdleCalls
  /\ IdleBatch
  /\ active_jobs = <<>>
  /\ jobThread = [t \in ThreadIds |-> NoThread]

notJobs == <<db, ncalls, last, shifted, concVars, gwVars, callVars, batchVars>>

\* del active_jobs[job_id]
Remove(jobs, gone) == [j \in (DOMAIN jobs) \ gone |-> jobs[j]]

\* the jobs a sweep at current_time removes, given the table jobs
ToRemove(jobs, current_time) ==
  {j \in DOMAIN jobs : current_time - jobs[j].started_at > CleanupAfterHours}

\* the threads that have been started and have not ended
Live == {t \in ThreadIds : jobThread[t].pc \notin {"none", "done"}}

\* process_spreadsheet: the session already has a running job (answer 409)
HasRunningJob(jobs, session_id) ==
  session_id \in DOMAIN jobs /\ jobs[session_id].is_running

\* process_spreadsheet: the request is not rejected and a thread is started
\* for it; the thread has touched nothing yet
StartJob(j, total) ==
  /\ ~HasRunningJob(active_jobs, j)
  /\ \E t \in ThreadIds :
       /\ jobThread[t].pc = "none"
       /\ \A u \in 1..(t - 1) : jobThread[u].pc # "none"
       /\ jobThread' = [jobThread EXCEPT ![t] =
                          [pc |-> "register", job |-> j, total |-> total,
                           idx |-> 0, produced |-> 0]]
  /\ UNCHANGED <<active_jobs, clock, notJobs>>

\* process_comments_background: the job-status record is created
JobRegister(t) ==
  /\ jobThread[t].pc = "register"
  /\ active_jobs' = Put(active_jobs, jobThread[t].job,
                        [is_running |-> TRUE, progress |-> 0,
                         total |-> jobThread[t].total, results |-> <<>>,
                         error |-> None, started_at |-> clock])
  /\ jobThread' = [jobThread EXCEPT ![t].pc = "setup"]
  /\ UNCHANGED <<clock, notJobs>>

\* praw.Reddit(...), Database() and the detectors are built
JobSetup(t) ==
  /\ jobThread[t].pc = "setup"
  /\ jobThread' = [jobThread EXCEPT ![t].pc = "mark"]
  /\ UNCHANGED <<active_jobs, clock, notJobs>>

\* building them raises: the outer except records the error and ends the job
JobSetupError(t) ==
  /\ jobThread[t].pc = "setup"
  /\ active_jobs' = IF jobThread[t].job \in DOMAIN active_jobs
                      THEN [active_jobs EXCEPT ![jobThread[t].job].error = Some("error"),
                                               ![jobThread[t].job].is_running = FALSE]
                      ELSE active_jobs
  /\ jobThread' = [jobThread EXCEPT ![t].pc = "done"]
  /\ UNCHANGED <<clock, notJobs>>

\* the loop of process_comments_background: progress = idx
JobMark(t) ==
  /\ jobThread[t].pc = "mark"
  /\ active_jobs' = IF jobThread[t].job \in DOMAIN active_jobs
                      THEN [active_jobs EXCEPT ![jobThread[t].job].progress = jobThread[t].idx]
                      ELSE active_jobs
  /\ jobThread' = [jobThread EXCEPT ![t].pc = "work"]
  /\ UNCHANGED <<clock, notJobs>>

\* the loop body: the record of the URL is built and appended to the results
JobAppend(t) ==
  /\ jobThread[t].pc = "work"
  /\ active_jobs' = IF jobThread[t].job \in DOMAIN active_jobs
                      THEN [active_jobs EXCEPT
                              ![jobThread[t].job].results = Append(@, jobThread[t].idx)]
                      ELSE active_jobs
  /\ jobThread' = [jobThread EXCEPT ![t] =
                     [pc |-> IF @.idx + 1 = @.total THEN "finish" ELSE "mark",
                      job |-> @.job, total |-> @.total, idx |-> @.idx + 1,
                      produced |-> @.produced + 1]]
  /\ UNCHANGED <<clock, notJobs>>

\* after the loop: progress = total, is_running = False
JobFinish(t) ==
  /\ jobThread[t].pc = "finish"
  /\ active_jobs' = IF jobThread[t].job \in DOMAIN active_jobs
                      THEN [active_jobs EXCEPT
                              ![jobThread[t].job].progress = jobThread[t].total,
                              ![jobThread[t].job].is_running = FALSE]
                      ELSE active_jobs
  /\ jobThread' = [jobThread EXCEPT ![t].pc = "done"]
  /\ UNCHANGED <<clock, notJobs>>

\* cleanup_old_jobs wakes up and sweeps the table
Sweep ==
  /\ ToRemove(active_jobs, clock) # {}
  /\ active_jobs' = Remove(active_jobs, ToRemove(active_jobs, clock))
  /\ UNCHANGED <<jobThread, clock, notJobs>>

\* an hour passes
Tick ==
  /\ clock < StartClock + MaxHours
  /\ clock' = clock + 1
  /\ UNCHANGED <<jobVars, notJobs>>

\* a step of the thread t that no failure causes
JobStep(t) ==
  \/ JobRegister(t)
  \/ JobSetup(t)
  \/ JobMark(t)
  \/ JobAppend(t)
  \/ JobFinish(t)

NextJobs ==
  \/ \E j \in Sessions, total \in 1..MaxJobUrls : StartJob(j, total)
  \/ \E t \in ThreadIds : JobStep(t)
  \/ \E t \in ThreadIds : JobSetupError(t)
  \/ Sweep
  \/ Tick

SpecJobs == InitJobs /\ [][NextJobs]_vars

\* a started thread is scheduled again and again until it ends
LiveJobs == SpecJobs /\ \A t \in ThreadIds : WF_vars(JobStep(t))

\* the thread t has registered its job and not yet cleared is_running
InFlight(t) == jobThread[t].pc \in {"setup", "mark", "work", "finish"}

\* no other thread was ever started for the job of the thread t
Alone(t) ==
  \A u \in ThreadIds \ {t} :
    jobThread[u].pc = "none" \/ jobThread[u].job # jobThread[t].job

\* C18: the sweep never removes the record of a batch still in flight. While
\* the only thread of a job is between registering its record and clearing
\* is_running, the record is in active_jobs with is_running true, and it holds
\* every result the thread has produced so far.
C18_SweepSparesRunning ==
  \A t \in ThreadIds :
    (InFlight(t) /\ Alone(t)) =>
      /\ jobThread[t].job \in DOMAIN active_jobs
      /\ active_jobs[jobThread[t].job].is_running
      /\ Len(active_jobs[jobThread[t].job].results) = jobThread[t].produced

\* C30: in sequential mode the entries are processed strictly one at a time,
\* in input order. Rank detection, the reply scan and the classification with
\* its store update are over for entry i, and its record is there, before any
\* request to the gateway or any access to the store is made for entry i + 1.
C30_OneAtATime ==
  bMode = "seq" =>
    /\ Len(bResults) = (IF bPc = "returned" THEN bIdx ELSE bIdx - 1)
    /\ \A i \in DOMAIN bInput :
         (bReqs[i] # <<>> \/ bFault[i] # {}) => i <= Len(bResults) + 1
    /\ DOMAIN db \subseteq {bInput[i] : i \in 1..Len(bResults)}
    /\ \A i \in 1..Len(bResults) :
         ("store" \notin bFault[i]) => bInput[i] \in DOMAIN db

\* the second of three entries is between its rank detection and its reply
\* scan; the first is done and stored, the third untouched
C30_Witness ==
  /\ bMode = "seq"
  /\ Len(bInput) = 3
  /\ bIdx = 2
  /\ bPc = "reply"
  /\ bInput[1] = UrlNoPost
  /\ bInput[2] = UrlC1
  /\ bInput[3] = UrlNoPost
  /\ bReqs[1] # <<>>
  /\ bReqs[2] # <<>>
  /\ bReqs[3] = <<>>
  /\ Len(bResults) = 1
  /\ DOMAIN db = {UrlNoPost}

\* C31: in staged-parallel mode the phases are strictly ordered. During phase
\* 1 the ranks are detected one entry at a time in input order and no reply
\* check has been submitted; during phase 2 every rank is known and nothing
\* has been classified or stored; phase 3 starts only when every reply check
\* has finished and been collected, and classifies in input order.
C31_PhasesOrdered ==
  bMode = "par" =>
    /\ bPc = "phase1" =>
         /\ bTask = <<>> /\ bReply = <<>>
         /\ DOMAIN bRank = {bInput[i] : i \in 1..(bIdx - 1)}
         /\ \A i \in bIdx..Len(bInput) : bReqs[i] = <<>> /\ bFault[i] = {}
    /\ bPc \in {"phase1", "phase2"} => db = <<>> /\ bResults = <<>>
    /\ bPc # "phase1" => DOMAIN bRank = {bInput[i] : i \in DOMAIN bInput}
    /\ bPc \in {"phase3", "returned", "raised"} =>
         /\ \A i \in DOMAIN bTask : bTask[i].st = "collected"
         /\ DOMAIN bTask = DOMAIN bInput
         /\ DOMAIN bReply = {bInput[i] : i \in DOMAIN bInput}
         /\ Len(bResults) = (IF bPc = "returned" THEN bIdx ELSE bIdx - 1)
         /\ DOMAIN db \subseteq {bInput[i] : i \in 1..Len(bResults)}

\* phase 3 has classified the first of three entries; the reply checks were
\* collected in another order than they were submitted
C31_Witness ==
  /\ bMode = "par"
  /\ bPc = "phase3"
  /\ Len(bInput) = 3
  /\ bIdx = 2
  /\ bOrder = <<2, 1, 3>>
  /\ Len(bResults) = 1
  /\ bInput[1] \in DOMAIN db

\* C32: during the parallel reply phase the number of reply checks in flight
\* never exceeds max_workers, also when the batch has more entries than the
\* pool has workers.
C32_BoundedWorkers == Cardinality(Running) <= MaxWorkers

\* the pool is full and a submitted check waits for a worker
C32_Witness ==
  /\ bPc = "phase2"
  /\ Cardinality(Running) = MaxWorkers
  /\ Len(bInput) > MaxWorkers
  /\ \E i \in DOMAIN bTask : bTask[i].st = "queued"

ReplyStatuses == {"Reply Received", "Ranking Changed + Reply Received"}

\* C37: has_recent_reply returns a timestamp exactly when it returns true, so
\* a batch that started on an empty store has put a last_reply_timestamp into
\* the row of a URL only if one of its records for that URL says Reply
\* Received or Ranking Changed + Reply Received.
C37_StampOnlyWithReply ==
  /\ \A url \in DOMAIN bReply : bReply[url][1] <=> (bReply[url][2] # None)
  /\ \A i \in DOMAIN bTask :
       bTask[i].st = "finished" => (bTask[i].ret[1] <=> (bTask[i].ret[2] # None))
  /\ \A url \in DOMAIN db :
       db[url].last_reply_timestamp # None =>
         \E k \in 1..Len(bResults) :
           bResults[k].URL = url /\ bResults[k].Status \in ReplyStatuses

\* one entry was stored with the timestamp of its reply and a reply status,
\* another, whose reply check failed, without a timestamp
C37_Witness ==
  /\ bPc = "returned"
  /\ \E i, k \in DOMAIN bInput :
       /\ bInput[i] = UrlC1 /\ bInput[k] = UrlNoPost
       /\ bFault[i] = {}
       /\ db[UrlC1].last_reply_timestamp = Some(IsoFormat(Cutoff0 + 20))
       /\ bResults[i].Status \in ReplyStatuses
       /\ "store" \notin bFault[k]
       /\ db[UrlNoPost].last_reply_timestamp = None
       /\ bResults[k].Status \notin ReplyStatuses

\* the gateway failures the call `what` of entry k met during the batch
DownOf(k, what) == IF what \in bFault[k] THEN {"comment"} ELSE {}

\* process_batch as a function of the input, the gateway answers and the
\* failures met: the records, the store and the clock after the first k entries
RECURSIVE ProcessBatch(_)
ProcessBatch(k) ==
  IF k = 0 THEN [results |-> <<>>, db |-> <<>>, now |-> StartClock]
  ELSE LET before == ProcessBatch(k - 1)
           url == bInput[k]
           current_rank == DetectRank(url, DownOf(k, "rank")).ret
           reply == HasRecentReply(url, before.now, DownOf(k, "reply"), {}).ret
           r == CalculateStatus(before.db, url, current_rank, reply[1], reply[2],
                                IsoFormat(before.now))
       IN  IF "store" \in bFault[k]
             THEN [results |-> Emit(before.results, Record(url, "No Change", OutOfTop)),
                   db |-> before.db, now |-> before.now]
             ELSE [results |-> Emit(before.results, Record(url, r.status, current_rank)),
                   db |-> r.db, now |-> before.now + 1]

\* the rank and reply columns of a store
RankAndReply(d) ==
  [u \in DOMAIN d |-> <<d[u].last_known_rank, d[u].previous_rank, d[u].last_reply_timestamp>>]

DistinctUrls == \A i, j \in DOMAIN bInput : i # j => bInput[i] # bInput[j]

\* the batch has ended, by returning or by raising
Ended == bPc \in {"returned", "raised"}

\* C38: sequential and staged-parallel mode are equivalent. A batch of
\* distinct URLs that has ended, in either mode, has returned the records that
\* process_batch returns for the same input, empty initial store, gateway
\* answers and failures, and has left the same rank and reply columns.
C38_ModesEquivalent ==
  (Ended /\ DistinctUrls) =>
    /\ bPc = "returned"
    /\ bResults = ProcessBatch(Len(bInput)).results
    /\ RankAndReply(db) = RankAndReply(ProcessBatch(Len(bInput)).db)

\* The modes do agree on every batch in which no store call raises.
ModesEquivalentWhileStoreWorks ==
  (Ended /\ DistinctUrls /\ \A i \in DOMAIN bFault : "store" \notin bFault[i]) =>
    /\ bPc = "returned"
    /\ bResults = ProcessBatch(Len(bInput)).results
    /\ RankAndReply(db) = RankAndReply(ProcessBatch(Len(bInput)).db)

\* Sequential mode is the function ProcessBatch, store failures included.
SequentialIsProcessBatch ==
  (bMode = "seq" /\ bPc = "returned") =>
    /\ bResults = ProcessBatch(Len(bInput)).results
    /\ db = ProcessBatch(Len(bInput)).db

\* the job-status record of the thread t says the job completed
Completed(t) ==
  /\ jobThread[t].pc # "none"
  /\ jobThread[t].job \in DOMAIN active_jobs
  /\ ~active_jobs[jobThread[t].job].is_running
  /\ active_jobs[jobThread[t].job].progress = jobThread[t].total

\* C34: every started background job runs to completion. A thread that has
\* been started for a job over n URLs eventually leaves the record of its job
\* with is_running false and progress n.
C34_JobsComplete ==
  \A t \in ThreadIds : (jobThread[t].pc = "register") ~> Completed(t)

\* Every started thread does come to its end.
ThreadsEnd ==
  \A t \in ThreadIds : (jobThread[t].pc = "register") ~> (jobThread[t].pc = "done")

\* C35: at most one background batch runs per session. No two threads that
\* have been started and have not ended work for the same session, so no two
\* threads write to the same entry of active_jobs.
C35_OneBatchPerSession ==
  \A t, u \in Live : t # u => jobThread[t].job # jobThread[u].job

\* C36: the job-status records are consistent in every reachable state:
\* 0 <= progress <= total, len(results) <= total, the results stand in input
\* order, and a record with is_running false and no error has progress =
\* total = len(results).
C36_RecordsConsistent ==
  \A j \in DOMAIN active_jobs :
    LET job == active_jobs[j]
    IN  /\ 0 <= job.progress /\ job.progress <= job.total
        /\ Len(job.results) <= job.total
        /\ \A k \in 1..Len(job.results) : job.results[k] = k - 1
        /\ (~job.is_running /\ job.error = None) =>
             (job.progress = job.total /\ Len(job.results) = job.total)

\* The records of the sessions for which one thread only was ever started
\* are consistent.
RecordsConsistentAlone ==
  \A t \in ThreadIds :
    (jobThread[t].pc # "none" /\ Alone(t) /\ jobThread[t].job \in DOMAIN active_jobs) =>
      LET job == active_jobs[jobThread[t].job]
      IN  /\ 0 <= job.progress /\ job.progress <= job.total
          /\ Len(job.results) <= job.total
          /\ \A k \in 1..Len(job.results) : job.results[k] = k - 1
          /\ (~job.is_running /\ job.error = None) =>
               (job.progress = job.total /\ Len(job.results) = job.total)

====
